---- MODULE Spec2Model ----
(***************************************************************************)
(* Batch transcription pipeline (batch_transcribe_to_pdf_1.py).            *)
(* process_videos is modelled step by step: one action per stage of the    *)
(* per-file loop, the position in the function being the variable pc.      *)
(* The file system is the set of output directories, the content of every  *)
(* destination path and the temporary audio files.  The transcription      *)
(* service, ffmpeg and the file-system writes are the environment: their   *)
(* outcomes (success or the exception they raise) are chosen with \E.      *)
(***************************************************************************)
EXTENDS Integers, Sequences, FiniteSets, TLC

(***************************************************************************)
(* Bounds of the model.                                                    *)
(***************************************************************************)
\* largest number of media files in the source directory
MaxFiles == 2

(***************************************************************************)
(* Characters and strings.  A string is a sequence of one-character        *)
(* strings, so that stem, suffix, lower(), strip() and clean_filename are  *)
(* computed as Python computes them.                                       *)
(***************************************************************************)
\* ord(ch) for the characters that occur in the directory entries
Ord(ch) ==
    CASE ch = " " -> 32 [] ch = "!" -> 33 [] ch = "." -> 46
      [] ch = "3" -> 51 [] ch = "4" -> 52
      [] ch = "K" -> 75 [] ch = "M" -> 77 [] ch = "V" -> 86
      [] ch = "_" -> 95
      [] ch = "a" -> 97 [] ch = "b" -> 98 [] ch = "c" -> 99
      [] ch = "d" -> 100 [] ch = "g" -> 103 [] ch = "k" -> 107
      [] ch = "m" -> 109 [] ch = "n" -> 110 [] ch = "o" -> 111
      [] ch = "p" -> 112 [] ch = "t" -> 116 [] ch = "v" -> 118
      [] ch = "x" -> 120
      [] OTHER -> 0

\* str.lower() on one character
LowerChar(ch) ==
    CASE ch = "K" -> "k" [] ch = "M" -> "m" [] ch = "V" -> "v" [] OTHER -> ch

Lower(s) == [i \in 1..Len(s) |-> LowerChar(s[i])]

\* str.isalnum() on one character
IsAlnum(ch) == (Ord(ch) >= 48 /\ Ord(ch) <= 57) \/ (Ord(ch) >= 65 /\ Ord(ch) <= 90)
               \/ (Ord(ch) >= 97 /\ Ord(ch) <= 122)

\* str.isspace() on one character
IsSpace(ch) == ch \in {" ", "\n", "\t"}

RECURSIVE LStrip(_)
LStrip(s) == IF s # <<>> /\ IsSpace(Head(s)) THEN LStrip(Tail(s)) ELSE s

RECURSIVE RStrip(_)
RStrip(s) ==
    IF s # <<>> /\ IsSpace(s[Len(s)]) THEN RStrip(SubSeq(s, 1, Len(s) - 1)) ELSE s

\* str.strip()
Strip(s) == RStrip(LStrip(s))

\* the generator expression of clean_filename: keep the allowed characters
RECURSIVE KeepSafe(_)
KeepSafe(s) ==
    IF s = <<>> THEN <<>>
    ELSE IF IsAlnum(Head(s)) \/ Head(s) \in {" ", "-", "_", "."}
         THEN <<Head(s)>> \o KeepSafe(Tail(s))
         ELSE KeepSafe(Tail(s))

\* str.replace(" ", "_")
SpacesToUnderscores(s) == [i \in 1..Len(s) |-> IF s[i] = " " THEN "_" ELSE s[i]]

clean_filename(name) == SpacesToUnderscores(Strip(KeepSafe(name)))

\* index of the last "." of a name that starts a suffix, 0 when there is none
\* (pathlib: a leading or a trailing dot starts no suffix)
SuffixDot(name) ==
    LET dots == {i \in 2..(Len(name) - 1) : name[i] = "."}
    IN  IF dots = {} THEN 0 ELSE CHOOSE i \in dots : \A j \in dots : j <= i

\* Path.suffix
Suffix(name) ==
    IF SuffixDot(name) = 0 THEN <<>> ELSE SubSeq(name, SuffixDot(name), Len(name))

\* Path.stem
Stem(name) ==
    IF SuffixDot(name) = 0 THEN name ELSE SubSeq(name, 1, SuffixDot(name) - 1)

\* lexicographic order of two strings by code point (sorted() on the paths
\* of one directory)
RECURSIVE StrLess(_, _)
StrLess(a, b) ==
    IF b = <<>> THEN FALSE
    ELSE IF a = <<>> THEN TRUE
    ELSE IF Ord(Head(a)) # Ord(Head(b)) THEN Ord(Head(a)) < Ord(Head(b))
    ELSE StrLess(Tail(a), Tail(b))

RECURSIVE Sorted(_)
Sorted(S) ==
    IF S = {} THEN <<>>
    ELSE LET m == CHOOSE x \in S : \A y \in S \ {x} : StrLess(x, y)
         IN  <<m>> \o Sorted(S \ {m})

VIDEO_EXTS ==
    { <<".", "m", "p", "4">>, <<".", "m", "o", "v">>, <<".", "m", "k", "v">>,
      <<".", "a", "v", "i">>, <<".", "m", "p", "g">>, <<".", "m", "p", "e", "g">>,
      <<".", "m", "4", "v">>, <<".", "w", "e", "b", "m">> }

AUDIO_EXTS ==
    { <<".", "w", "a", "v">>, <<".", "m", "p", "3">>, <<".", "m", "4", "a">>,
      <<".", "a", "a", "c">>, <<".", "f", "l", "a", "c">>, <<".", "o", "g", "g">>,
      <<".", "o", "p", "u", "s">>, <<".", "w", "m", "a">> }

(***************************************************************************)
(* The entries a source directory may hold.  "a b!.MKV" and "a_b.mp3" are  *)
(* two files that clean_filename gives the same destination stem; n.txt    *)
(* is a file that is no media file and d.mp4 is a subdirectory.            *)
(***************************************************************************)
Entry(name, isfile) == [name |-> name, is_file |-> isfile]

Media ==
    { Entry(<<"a", " ", "b", "!", ".", "M", "K", "V">>, TRUE),
      Entry(<<"a", "_", "b", ".", "m", "p", "3">>, TRUE),
      Entry(<<"c", ".", "m", "p", "4">>, TRUE) }

Others ==
    { Entry(<<"n", ".", "t", "x", "t">>, TRUE),
      Entry(<<"d", ".", "m", "p", "4">>, FALSE) }

Universe == Media \cup Others

Names == {e.name : e \in Universe}

\* p.suffix.lower() and clean_filename(p.stem) of every name, computed once
SuffixOf == [n \in Names |-> Lower(Suffix(n))]
StemOf == [n \in Names |-> clean_filename(Stem(n))]

\* the filter of the list comprehension of process_videos: regular files
\* with a known suffix
Candidates(es) ==
    {e.name : e \in {x \in es :
        x.is_file /\ SuffixOf[x.name] \in (VIDEO_EXTS \cup AUDIO_EXTS)}}

\* files = sorted([...])
Discover(es) == Sorted(Candidates(es))

Kinds == {"txt", "json", "pdf"}

\* a destination path: the artifact kind and the cleaned stem
Dest(kind, src) == <<kind, StemOf[src]>>

DestPaths == {Dest(k, n) : k \in Kinds, n \in Names}

\* content of a path: nothing, or what a writer left there
Absent == [by |-> <<"-">>]
Prior == [by |-> <<>>]
WrittenBy(src) == [by |-> src]

OutDirs == {"out", "txt", "json", "pdf"}

(***************************************************************************)
(* State.                                                                  *)
(***************************************************************************)
VARIABLES
    in_dir_ok,      \* the source path exists and is a directory
    entries,        \* the entries of the source directory
    dirs,           \* output directories that exist
    fs,             \* content of every destination path
    tmp,            \* temporary audio files that exist (their source file)
    rerun,          \* the current call is the caller's second one
    pc,             \* position in process_videos
    overwrite,      \* parameter of the current call
    ffmpeg_ok,      \* result of has_ffmpeg() in the current call
    files,          \* the sorted list of discovered files
    idx,            \* loop index (1-based)
    use_path,       \* what is submitted: "src" or "tmp"
    response,       \* response of the current file
    transcript_text,\* text to persist for the current file
    log,            \* messages given to log_callback in the current call
    requests,       \* calls of transcribe_audio_file in the current call
    written,        \* writes to destination paths in the current call
    outcome,        \* how each file of the current call ended
    prev            \* the file system when the current call began, and how
                    \* the call before it went

vars == <<in_dir_ok, entries, dirs, fs, tmp, rerun, pc, overwrite, ffmpeg_ok, files,
          idx, use_path, response, transcript_text, log, requests, written,
          outcome, prev>>

Msg(kind, src) == [k |-> kind, f |-> src]
NoFile == <<>>

src == files[idx]

is_video(name) == SuffixOf[name] \in VIDEO_EXTS

Exists(path) == fs[path] # Absent

AllExist(name) == \A k \in Kinds : Exists(Dest(k, name))

(***************************************************************************)
(* Responses of the transcription service: a tree of scalars, sequences    *)
(* and mappings, in an object that may or may not offer to_dict() / keys.  *)
(***************************************************************************)
Str(s) == [t |-> "str", v |-> s]
Num(n) == [t |-> "num", v |-> n]
Null == [t |-> "null", v |-> 0]
Map(m) == [t |-> "map", v |-> m]
List(s) == [t |-> "seq", v |-> s]
\* the marker of a raised exception
Raised == [t |-> "raise", v |-> 0]
EmptyMap == Map(<<>>)

IsRaised(node) == node.t = "raise"

\* node[key] with a string key
GetKey(node, key) ==
    IF node.t = "map" /\ key \in DOMAIN node.v THEN node.v[key] ELSE Raised

\* node[0]
GetFirst(node) ==
    IF node.t = "seq" /\ node.v # <<>> THEN node.v[1]
    ELSE IF node.t = "str" /\ node.v # <<>> THEN Str(<<node.v[1]>>)
    ELSE Raised

\* node.get(key, default)
DictGet(node, key, default) ==
    IF node.t # "map" THEN Raised
    ELSE IF key \in DOMAIN node.v THEN node.v[key] ELSE default

\* bool(node)
Truthy(node) ==
    CASE node.t = "str" -> node.v # <<>>
      [] node.t = "num" -> node.v # 0
      [] node.t = "map" -> DOMAIN node.v # {}
      [] node.t = "seq" -> node.v # <<>>
      [] OTHER -> FALSE

\* a or b
PyOr(a, b) == IF Truthy(a) THEN a ELSE b

Response(kind, data) == [obj |-> kind, data |-> data]

ErrorText == <<"[", "E", "r", "r", "o", "r", "]">>
Placeholder == <<"[", "v", "a", "c", "i", "a", "]">>

Alt(data) ==
    GetFirst(GetKey(GetFirst(GetKey(GetKey(data, "results"), "channels")),
                    "alternatives"))

\* the transcript of extract_transcript_from_response (first component of
\* the tuple it returns)
extract_transcript_from_response(response_obj) ==
    IF response_obj.obj \notin {"model", "mapping"} THEN Str(ErrorText)
    ELSE LET alt == Alt(response_obj.data)
             par == DictGet(alt, "paragraphs", EmptyMap)
             pt == DictGet(par, "transcript", Null)
         IN  IF IsRaised(alt) \/ IsRaised(par) \/ IsRaised(pt) THEN Str(<<>>)
             ELSE PyOr(PyOr(pt, DictGet(alt, "transcript", Str(<<>>))), Str(<<>>))

WithAlt(alt) ==
    Response("model",
        Map([results |-> Map([channels |-> List(<<Map([alternatives |-> List(<<alt>>)])>>)])]))

R_par ==
    WithAlt(Map([paragraphs |-> Map([transcript |-> Str(<<"p">>)]),
                 transcript |-> Str(<<"f">>), confidence |-> Num(1)]))
R_blank == WithAlt(Map([transcript |-> Str(<<" ", "\n">>)]))
R_num == WithAlt(Map([transcript |-> Num(5)]))

\* what the service may answer in a run of the batch
Responses == {R_par, R_blank, R_num}

NoResponse == Response("none", Null)

(***************************************************************************)
(* Response shapes for the extraction taken alone: every combination of a  *)
(* "paragraphs" entry and a "transcript" entry in the first alternative,   *)
(* responses that lack the path to that alternative, and objects that are  *)
(* neither a model (to_dict) nor a mapping (keys).                         *)
(***************************************************************************)
\* stands for a key the mapping does not have
Missing == [t |-> "missing", v |-> 0]

\* a mapping with the entries of kv that are not Missing
MapOf(kv) == Map([k \in {x \in DOMAIN kv : kv[x] # Missing} |-> kv[k]])

ParagraphsShapes ==
    {Missing, Null, MapOf([transcript |-> Missing]), Str(<<"x">>)}
    \cup {MapOf([transcript |-> v]) :
            v \in {Str(<<"p">>), Str(<<>>), Null, Num(5)}}

TranscriptShapes ==
    {Missing, Null, Str(<<>>), Str(<<" ">>), Str(<<"f">>), Num(0), Num(5),
     List(<<>>), List(<<Str(<<"f">>)>>)}

AlternativeShapes ==
    {MapOf([paragraphs |-> p, transcript |-> f, confidence |-> Num(1)]) :
        p \in ParagraphsShapes, f \in TranscriptShapes}
    \cup {Str(<<"s">>), Null, List(<<Str(<<"f">>)>>)}

WithChannels(channels) == MapOf([results |-> MapOf([channels |-> channels])])

DataShapes ==
    {WithAlt(alt).data : alt \in AlternativeShapes}
    \cup {WithChannels(c) :
            c \in {Missing, Null, List(<<>>), Str(<<"a", "b">>),
                   List(<<MapOf([alternatives |-> List(<<>>)])>>),
                   List(<<MapOf([alternatives |-> Missing])>>)}}
    \cup {MapOf([results |-> Missing]), MapOf([results |-> Null])}

ResponseShapes ==
    {Response(kind, d) : kind \in {"model", "mapping"}, d \in DataShapes}
    \cup {Response("other", d) : d \in {Null, Num(5), Str(<<"f">>), List(<<>>)}}
NoText == <<>>

(***************************************************************************)
(* Initial state: any source directory, any earlier content of the output  *)
(* directories (per destination stem: nothing, text and payload only, or   *)
(* the three artifacts).  The caller runs the batch, and then once more.   *)
(***************************************************************************)
PriorSets == {{}, {"txt", "json"}, Kinds}

Stems(es) == {StemOf[e.name] : e \in es}

Init ==
    /\ in_dir_ok \in BOOLEAN
    /\ IF in_dir_ok
       THEN \E ms \in SUBSET Media :
              /\ Cardinality(ms) <= MaxFiles
              /\ entries = ms \cup Others
       ELSE entries = {}
    /\ \E have \in [Stems(entries \cap Media) -> PriorSets] :
          fs = [p \in DestPaths |->
                  IF p[2] \in Stems(entries \cap Media) /\ p[1] \in have[p[2]]
                  THEN Prior ELSE Absent]
    /\ dirs \in {{}, OutDirs}
    /\ (\E p \in DestPaths : fs[p] # Absent) => dirs = OutDirs
    /\ tmp = {}
    /\ rerun = FALSE
    /\ pc = "idle"
    /\ overwrite \in BOOLEAN
    /\ ffmpeg_ok = FALSE
    /\ files = <<>>
    /\ idx = 0
    /\ use_path = "src"
    /\ response = NoResponse
    /\ transcript_text = NoText
    /\ log = <<>>
    /\ requests = <<>>
    /\ written = <<>>
    /\ outcome = [n \in Names |-> "pending"]
    /\ prev = [fs |-> fs, dirs |-> dirs, overwrite |-> FALSE, failed |-> {},
               status |-> "none"]

(***************************************************************************)
(* process_videos, up to the loop.                                         *)
(***************************************************************************)
Begin ==
    /\ pc = "idle"
    /\ dirs' = OutDirs
    /\ IF ~in_dir_ok
       THEN /\ pc' = "raised"
            /\ UNCHANGED <<ffmpeg_ok, files, idx, log>>
       ELSE \E ff \in BOOLEAN :
            /\ ffmpeg_ok' = ff
            /\ files' = Discover(entries)
            /\ idx' = 1
            /\ log' = (IF ff THEN <<>> ELSE <<Msg("no_ffmpeg", NoFile)>>)
                      \o (IF files' = <<>> THEN <<Msg("none_found", NoFile)>>
                          ELSE <<Msg("found", NoFile)>>)
            /\ pc' = IF files' = <<>> THEN "returned" ELSE "loop"
    /\ UNCHANGED <<in_dir_ok, entries, fs, tmp, rerun, overwrite, use_path, response,
                   transcript_text, requests, written, outcome, prev>>

\* variant: the loop stops one file early
LoopDoneEarly == idx >= Len(files)

\* the for loop has gone through every discovered file
LoopDone == idx > Len(files)

\* variants of the skip condition with a slip in it
SkipCondTextOnly(name) == ~overwrite /\ Exists(Dest("txt", name))
SkipCondInverted(name) == overwrite /\ AllExist(name)
SkipCondAlways(name) == AllExist(name)
SkipCondAnyArtifact(name) == ~overwrite /\ \E k \in Kinds : Exists(Dest(k, name))

\* the condition of the skip branch
SkipCond(name) == ~overwrite /\ AllExist(name)

\* top of the loop body: destination paths and skip check
SkipCheck ==
    /\ pc = "loop"
    /\ ~LoopDone
    /\ IF SkipCond(src)
       THEN /\ log' = Append(log, Msg("skip", src))
            /\ outcome' = [outcome EXCEPT ![src] = "skipped"]
            /\ idx' = idx + 1
            /\ pc' = "loop"
       ELSE /\ log' = Append(log, Msg("processing", src))
            /\ pc' = "prepare"
            /\ UNCHANGED <<outcome, idx>>
    /\ UNCHANGED <<in_dir_ok, entries, dirs, fs, tmp, rerun, overwrite, ffmpeg_ok,
                   files, use_path, response, transcript_text, requests, written,
                   prev>>

\* variant: ffmpeg is run on audio files too
WantsExtractionAny(name) == ffmpeg_ok

\* whether ffmpeg is run on the file
WantsExtraction(name) == is_video(name) /\ ffmpeg_ok

\* entering the temporary directory and extracting the audio
Prepare ==
    /\ pc = "prepare"
    /\ IF WantsExtraction(src)
       THEN \E ok \in BOOLEAN :
              IF ok
              THEN /\ tmp' = tmp \cup {src}
                   /\ use_path' = "tmp"
                   /\ log' = Append(log, Msg("audio_ok", src))
              ELSE /\ use_path' = "src"
                   /\ log' = Append(log, Msg("audio_failed", src))
                   /\ UNCHANGED tmp
       ELSE /\ use_path' = "src"
            /\ UNCHANGED <<tmp, log>>
    /\ pc' = "transcribe"
    /\ UNCHANGED <<in_dir_ok, entries, dirs, fs, rerun, overwrite, ffmpeg_ok, files,
                   idx, response, transcript_text, requests, written, outcome, prev>>

\* variant: the temporary directory is not removed
CleanupNothing(t) == t

\* what leaving the with block does to the temporary files
Cleanup(t) == {}

\* the transcription call and the exit of the with block
Transcribe ==
    /\ pc = "transcribe"
    /\ requests' = Append(requests, [f |-> src, path |-> use_path])
    /\ tmp' = Cleanup(tmp)
    /\ use_path' = "src"
    /\ \/ /\ log' = Append(log, Msg("transcription_error", src))
          /\ outcome' = [outcome EXCEPT ![src] = "failed"]
          /\ idx' = idx + 1
          /\ pc' = "loop"
          /\ UNCHANGED response
       \/ /\ response' \in Responses
          /\ pc' = "extract"
          /\ UNCHANGED <<log, outcome, idx>>
    /\ UNCHANGED <<in_dir_ok, entries, dirs, fs, rerun, overwrite, ffmpeg_ok, files,
                   transcript_text, written, prev>>

\* extraction of the transcript and the blank check
Extract ==
    /\ pc = "extract"
    /\ LET t == extract_transcript_from_response(response)
       IN  IF t.t # "str"
           THEN /\ pc' = "raised"
                /\ outcome' = [outcome EXCEPT ![src] = "raised"]
                /\ UNCHANGED transcript_text
           ELSE /\ transcript_text' = IF Strip(t.v) = <<>> THEN Placeholder ELSE t.v
                /\ pc' = "write_json"
                /\ UNCHANGED outcome
    /\ UNCHANGED <<in_dir_ok, entries, dirs, fs, tmp, rerun, overwrite, ffmpeg_ok,
                   files, idx, use_path, response, log, requests, written, prev>>

\* a successful write replaces the content of the path; a write that raises
\* (the path cannot be opened) leaves the path as it was
Write(kind, name) ==
    /\ fs' = [fs EXCEPT ![Dest(kind, name)] = WrittenBy(name)]
    /\ written' = Append(written, [f |-> name, path |-> Dest(kind, name)])

\* the structured payload: json.dump, or str(response) when that raises
WriteJson ==
    /\ pc = "write_json"
    /\ \/ /\ Write("json", src)
          /\ pc' = "write_txt"
          /\ UNCHANGED outcome
       \/ /\ pc' = "raised"
          /\ outcome' = [outcome EXCEPT ![src] = "raised"]
          /\ UNCHANGED <<fs, written>>
    /\ UNCHANGED <<in_dir_ok, entries, dirs, tmp, rerun, overwrite, ffmpeg_ok, files,
                   idx, use_path, response, transcript_text, log, requests, prev>>

\* the text artifact
WriteTxt ==
    /\ pc = "write_txt"
    /\ \/ /\ Write("txt", src)
          /\ pc' = "render"
          /\ UNCHANGED outcome
       \/ /\ pc' = "raised"
          /\ outcome' = [outcome EXCEPT ![src] = "raised"]
          /\ UNCHANGED <<fs, written>>
    /\ UNCHANGED <<in_dir_ok, entries, dirs, tmp, rerun, overwrite, ffmpeg_ok, files,
                   idx, use_path, response, transcript_text, log, requests, prev>>

\* variant: a failed rendering is not reported
AfterRenderSilent(name, failed) == <<Msg("saved", name)>>

\* what the loop logs after to_pdf, given whether to_pdf raised
AfterRender(name, failed) ==
    (IF failed THEN <<Msg("pdf_error", name)>> ELSE <<>>) \o <<Msg("saved", name)>>

\* the document, and the end of the loop body
Render ==
    /\ pc = "render"
    /\ \/ /\ Write("pdf", src)
          /\ log' = log \o AfterRender(src, FALSE)
       \/ /\ log' = log \o AfterRender(src, TRUE)
          /\ UNCHANGED <<fs, written>>
    /\ outcome' = [outcome EXCEPT ![src] = "saved"]
    /\ idx' = idx + 1
    /\ response' = NoResponse
    /\ transcript_text' = NoText
    /\ pc' = "loop"
    /\ UNCHANGED <<in_dir_ok, entries, dirs, tmp, rerun, overwrite, ffmpeg_ok, files,
                   use_path, requests, prev>>

\* after the loop
Finish ==
    /\ pc = "loop"
    /\ LoopDone
    /\ log' = Append(log, Msg("done", NoFile))
    /\ pc' = "returned"
    /\ UNCHANGED <<in_dir_ok, entries, dirs, fs, tmp, rerun, overwrite, ffmpeg_ok,
                   files, idx, use_path, response, transcript_text, requests,
                   written, outcome, prev>>

Failed == {n \in Names : outcome[n] = "failed"}

\* the caller starts the batch again on the same folders, with the overwrite
\* setting of its choice (gui.py: the start button is enabled again and the
\* log box is cleared)
Again ==
    /\ pc \in {"returned", "raised"}
    /\ ~rerun
    /\ rerun' = TRUE
    /\ prev' = [fs |-> fs, dirs |-> dirs, overwrite |-> overwrite,
                failed |-> Failed, status |-> pc]
    /\ overwrite' \in BOOLEAN
    /\ ffmpeg_ok' = FALSE
    /\ pc' = "idle"
    /\ files' = <<>>
    /\ idx' = 0
    /\ use_path' = "src"
    /\ response' = NoResponse
    /\ transcript_text' = NoText
    /\ log' = <<>>
    /\ requests' = <<>>
    /\ written' = <<>>
    /\ outcome' = [n \in Names |-> "pending"]
    /\ UNCHANGED <<in_dir_ok, entries, dirs, fs, tmp>>

Next ==
    \/ Begin
    \/ SkipCheck
    \/ Prepare
    \/ Transcribe
    \/ Extract
    \/ WriteJson
    \/ WriteTxt
    \/ Render
    \/ Finish
    \/ Again

Spec == Init /\ [][Next]_vars

(***************************************************************************)
(* The extraction taken alone: the batch stands after the transcription    *)
(* call of the only file of a fresh run, with any response shape.          *)
(***************************************************************************)
InitExtract ==
    /\ in_dir_ok = TRUE
    /\ entries = {Entry(<<"c", ".", "m", "p", "4">>, TRUE)} \cup Others
    /\ dirs = OutDirs
    /\ fs = [p \in DestPaths |-> Absent]
    /\ tmp = {}
    /\ rerun = FALSE
    /\ pc = "extract"
    /\ overwrite \in BOOLEAN
    /\ ffmpeg_ok = FALSE
    /\ files = Discover(entries)
    /\ idx = 1
    /\ use_path = "src"
    /\ response \in ResponseShapes
    /\ transcript_text = NoText
    /\ log = <<Msg("no_ffmpeg", NoFile), Msg("found", NoFile),
               Msg("processing", files[1])>>
    /\ requests = <<[f |-> files[1], path |-> "src"]>>
    /\ written = <<>>
    /\ outcome = [n \in Names |-> "pending"]
    /\ prev = [fs |-> fs, dirs |-> {}, overwrite |-> FALSE, failed |-> {},
               status |-> "none"]

NextExtract == Extract

SpecExtract == InitExtract /\ [][NextExtract]_vars

(***************************************************************************)
(* Vocabulary of the properties.                                           *)
(***************************************************************************)
Terminal == pc \in {"returned", "raised"}

Logged(kind, name) == \E i \in 1..Len(log) : log[i] = Msg(kind, name)

RequestsOf(name) == {i \in 1..Len(requests) : requests[i].f = name}

WritesOf(name) == {i \in 1..Len(written) : written[i].f = name}

WrittenTo(path) == \E i \in 1..Len(written) : written[i].path = path

\* the file has been through its transcription call in this run
PastRequest(name) ==
    \/ outcome[name] \in {"failed", "saved", "raised"}
    \/ /\ pc \in {"extract", "write_json", "write_txt", "render"}
       /\ name = src

Discovered == {files[i] : i \in 1..Len(files)}

(***************************************************************************)
(* C1: a file is skipped exactly when overwrite is disabled and its text,  *)
(* payload and document paths all exist at its skip check; a skipped file  *)
(* has no audio extraction, no transcription request and no write; a file  *)
(* that is not skipped goes on to its transcription request.               *)
(***************************************************************************)
C1_SkipStep ==
    (pc = "loop" /\ idx <= Len(files)) =>
        LET complete == \A k \in Kinds : fs[Dest(k, src)] # Absent
        IN  IF ~overwrite /\ complete
            THEN /\ outcome'[src] = "skipped"
                 /\ pc' = "loop"
                 /\ idx' = idx + 1
                 /\ UNCHANGED <<fs, tmp, requests, written>>
            ELSE /\ outcome'[src] # "skipped"
                 /\ pc' = "prepare"

C1_Proceeds ==
    /\ pc = "prepare" => pc' = "transcribe"
    /\ pc = "transcribe" => requests' = Append(requests, [f |-> src, path |-> use_path])

C1_SkippedUntouched ==
    \A n \in Names :
        /\ outcome[n] = "skipped" =>
              /\ RequestsOf(n) = {}
              /\ WritesOf(n) = {}
              /\ ~Logged("audio_ok", n) /\ ~Logged("audio_failed", n)
        /\ (n \in Discovered /\ outcome[n] \notin {"skipped", "pending"}) =>
              RequestsOf(n) # {}

C1_SkipPolicy ==
    /\ [][C1_SkipStep /\ C1_Proceeds]_vars
    /\ []C1_SkippedUntouched

\* one file was skipped because of a complete earlier set, another one, whose
\* set lacked the document, was processed
C1_Witness ==
    /\ ~overwrite
    /\ \E n, m \in Discovered :
          /\ outcome[n] = "skipped"
          /\ outcome[m] = "saved"
          /\ prev.fs[Dest("txt", m)] # Absent
          /\ prev.fs[Dest("pdf", m)] = Absent

(***************************************************************************)
(* C2: the original statement.  Files whose transcription raises get a     *)
(* logged failure and no artifact, every other file that is not skipped    *)
(* gets its three artifacts (when its writes and rendering succeed), and   *)
(* the batch runs to its completion message.                               *)
(***************************************************************************)
C2_FailureIsolation ==
    (in_dir_ok /\ files # <<>>) =>
        /\ pc # "raised"
        /\ \A n \in Discovered :
              /\ outcome[n] = "failed" =>
                    Logged("transcription_error", n) /\ WritesOf(n) = {}
              /\ (outcome[n] = "saved" /\ ~Logged("pdf_error", n)) =>
                    \A k \in Kinds :
                        \E i \in WritesOf(n) : written[i].path = Dest(k, n)
        /\ pc = "returned" =>
              /\ log[Len(log)] = Msg("done", NoFile)
              /\ \A n \in Discovered : outcome[n] \in {"skipped", "failed", "saved"}

(***************************************************************************)
(* C3: the original statement.  process_videos raises to its caller only   *)
(* when the source directory is missing or is no directory.                *)
(***************************************************************************)
C3_OnlyBadSourceRaises == pc = "raised" => ~in_dir_ok

\* the media files of the source directory
AllMedia == Candidates(entries)

Complete(f, name) == \A k \in Kinds : f[Dest(k, name)] # Absent

ThisRun == {WrittenBy(m) : m \in Discovered}

C6_OneRequest ==
    \A n \in Discovered :
        LET r == RequestsOf(n)
            left == pc \in {"loop", "returned", "raised"} \/ n # src
        IN  /\ Cardinality(r) <= 1
            /\ PastRequest(n) => Cardinality(r) = 1
            /\ outcome[n] = "skipped" => r = {}
            /\ \A i \in r :
                  requests[i].path =
                      IF SuffixOf[n] \in VIDEO_EXTS /\ ffmpeg_ok /\ Logged("audio_ok", n)
                      THEN "tmp" ELSE "src"
            /\ Logged("audio_ok", n) => (SuffixOf[n] \in VIDEO_EXTS /\ ffmpeg_ok)
            /\ (Logged("audio_failed", n) \/ (Logged("processing", n) /\ ~ffmpeg_ok)) =>
                  /\ outcome[n] # "skipped"
                  /\ left => r # {}

\* one video went out as extracted audio, another one as the source file
\* after ffmpeg failed on it
C6_Witness ==
    \E i, j \in 1..Len(requests) :
        /\ requests[i].path = "tmp"
        /\ requests[j].path = "src"
        /\ Logged("audio_failed", requests[j].f)

(***************************************************************************)
(* C7: the temporary audio of a file exists only while that file is being  *)
(* processed: it is there before the transcription request of the file,    *)
(* gone on every way out of it, there is never more than one, and none is  *)
(* left when the next file starts or when process_videos returns or        *)
(* raises.                                                                 *)
(***************************************************************************)
C7_TempScoped ==
    /\ Cardinality(tmp) <= 1
    /\ tmp # {} => (pc = "transcribe" /\ tmp = {src} /\ RequestsOf(src) = {})
    /\ (pc = "transcribe" /\ use_path = "tmp") => tmp = {src}
    /\ pc \in {"idle", "loop", "extract", "returned", "raised"} => tmp = {}

\* the audio of a file was extracted and sent, the call raised, and the
\* temporary audio is gone at the top of the loop
C7_Witness ==
    /\ pc = "loop"
    /\ tmp = {}
    /\ \E i \in 1..Len(requests) :
          requests[i].path = "tmp" /\ outcome[requests[i].f] = "failed"

(***************************************************************************)
(* C8: when rendering the document of a file fails, a warning for that     *)
(* file goes to the progress sink, the text and the payload written for it *)
(* in this run stay as written, and the batch goes on with the next file.  *)
(***************************************************************************)
C8_RenderStep ==
    (pc = "render" /\ written' = written) =>
        /\ log' = log \o <<Msg("pdf_error", src), Msg("saved", src)>>
        /\ fs' = fs
        /\ pc' = "loop"
        /\ idx' = idx + 1

C8_Written ==
    /\ pc = "render" =>
          /\ fs[Dest("txt", src)] = WrittenBy(src)
          /\ fs[Dest("json", src)] = WrittenBy(src)
    /\ \A n \in Names :
          Logged("pdf_error", n) =>
              \A k \in {"txt", "json"} :
                  /\ fs[Dest(k, n)] \in ThisRun
                  /\ \E i \in WritesOf(n) : written[i].path = Dest(k, n)

C8_RenderWarning == [][C8_RenderStep]_vars /\ []C8_Written

\* the rendering of one file failed and the next file was saved
C8_Witness ==
    \E i, j \in 1..Len(log) :
        /\ i < j
        /\ log[i].k = "pdf_error"
        /\ fs[Dest("txt", log[i].f)] = WrittenBy(log[i].f)
        /\ log[j].k = "saved"
        /\ log[j].f # log[i].f

(***************************************************************************)
(* C9: the original statement.  With a source path that is missing or is   *)
(* no directory, process_videos raises without a transcription request,    *)
(* without a progress message and without creating or writing anything on  *)
(* the file system.                                                        *)
(***************************************************************************)
C9_BadSourceTouchesNothing ==
    (~in_dir_ok /\ pc # "idle") =>
        /\ pc = "raised"
        /\ requests = <<>>
        /\ log = <<>>
        /\ written = <<>>
        /\ tmp = {}
        /\ fs = prev.fs
        /\ dirs = prev.dirs

(***************************************************************************)
(* C10: the original statement.  A file whose transcription fails in a run *)
(* has no complete artifact set at the end of that run, and the next run   *)
(* with overwrite disabled does not skip it and makes a new request for    *)
(* it, whatever the earlier content of the output directories and the      *)
(* overwrite setting of the failing run.                                   *)
(***************************************************************************)
C10_FailedIsRetried ==
    \A n \in Names :
        /\ (Terminal /\ outcome[n] = "failed") => ~Complete(fs, n)
        /\ (rerun /\ ~overwrite /\ n \in prev.failed) =>
              /\ outcome[n] # "skipped"
              /\ pc = "returned" => RequestsOf(n) # {}

(***************************************************************************)
(* C10, amended: a file whose transcription fails in a run, whose artifact *)
(* set was not complete when that run began and whose destination paths    *)
(* no other discovered file shares, has no complete artifact set at the    *)
(* end of that run, and the next run with overwrite disabled does not      *)
(* skip it: on reaching it, it makes a new transcription request for it.   *)
(***************************************************************************)
C10_FailedIncompleteIsRetried ==
    \A n \in Names :
        LET alone == \A m \in AllMedia \ {n} : Dest("txt", m) # Dest("txt", n)
        IN  /\ (Terminal /\ outcome[n] = "failed" /\ alone /\ ~Complete(prev.fs, n)) =>
                  ~Complete(fs, n)
            /\ (rerun /\ ~overwrite /\ n \in prev.failed /\ alone
                   /\ ~Complete(prev.fs, n)) =>
                  /\ outcome[n] # "skipped"
                  /\ pc = "returned" => RequestsOf(n) # {}
                  /\ PastRequest(n) => RequestsOf(n) # {}

\* a file with text and payload but no document failed in the first run and
\* is sent again in the second
C10_Witness ==
    /\ rerun /\ ~overwrite
    /\ \E n \in prev.failed :
          /\ prev.fs[Dest("txt", n)] # Absent
          /\ ~Complete(prev.fs, n)
          /\ RequestsOf(n) # {}

(***************************************************************************)
(* C11: the original statement.  Every call that returns normally, for any *)
(* number of discovered files, none included, has given the completion     *)
(* message to the progress sink exactly once, as its last message, after   *)
(* every discovered file reached its terminal outcome.                     *)
(***************************************************************************)
DoneAt == {i \in 1..Len(log) : log[i].k = "done"}

C11_CompletionLast ==
    pc = "returned" =>
        /\ DoneAt = {Len(log)}
        /\ log # <<>>
        /\ \A n \in Discovered : outcome[n] \in {"skipped", "failed", "saved"}

(***************************************************************************)
(* C11, amended: every call that returns normally with at least one        *)
(* discovered file has given the completion message exactly once, as its   *)
(* last message, after every discovered file reached its terminal outcome; *)
(* the message is given at no other time.  With no discovered file the     *)
(* call returns after the message that nothing was found, without the      *)
(* completion message.                                                     *)
(***************************************************************************)
C11_CompletionLastIfAny ==
    /\ (pc = "returned" /\ files # <<>>) =>
          /\ DoneAt = {Len(log)}
          /\ \A n \in Discovered : outcome[n] \in {"skipped", "failed", "saved"}
    /\ (pc = "returned" /\ files = <<>>) =>
          /\ DoneAt = {}
          /\ log # <<>> /\ log[Len(log)] = Msg("none_found", NoFile)
    /\ pc # "returned" => DoneAt = {}

\* a call over two files, one skipped and one whose transcription raised,
\* has returned
C11_Witness ==
    /\ pc = "returned"
    /\ log[Len(log)] = Msg("done", NoFile)
    /\ \E n, m \in Discovered : outcome[n] = "skipped" /\ outcome[m] = "failed"

(***************************************************************************)
(* C12: for every response shape the extraction returns the paragraph      *)
(* transcript of the first channel's first alternative when it is present, *)
(* otherwise that alternative's flat transcript when it is present,        *)
(* otherwise the empty string; and neither the extraction nor the blank    *)
(* check after it raises.  A transcript is present when the field is       *)
(* there and holds a non-empty string.                                     *)
(***************************************************************************)
Field(node, key) ==
    IF node.t = "map" /\ key \in DOMAIN node.v THEN node.v[key] ELSE Missing

FirstOf(node) ==
    IF node.t = "seq" /\ node.v # <<>> THEN node.v[1] ELSE Missing

Present(node) == node.t = "str" /\ node.v # <<>>

FirstAlternative(data) ==
    FirstOf(Field(FirstOf(Field(Field(data, "results"), "channels")),
                  "alternatives"))

ExpectedTranscript(data) ==
    LET alt == FirstAlternative(data)
        par == Field(Field(alt, "paragraphs"), "transcript")
        flat == Field(alt, "transcript")
    IN  IF Present(par) THEN par.v
        ELSE IF Present(flat) THEN flat.v
        ELSE <<>>

C12_ExtractionTotal ==
    /\ extract_transcript_from_response(response)
          = Str(ExpectedTranscript(response.data))
    /\ pc # "raised"

(***************************************************************************)
(* C13: within one run two distinct discovered files never have the same   *)
(* destination paths: no discovered file is skipped because of artifacts   *)
(* that another file wrote earlier in the run, and no artifact written     *)
(* for one file is written again for a later file of the run.              *)
(***************************************************************************)
SkippedOnOthersArtifacts(name) ==
    /\ outcome[name] = "skipped"
    /\ \E i \in 1..Len(written) :
          /\ written[i].f # name
          /\ \E k \in Kinds : written[i].path = Dest(k, name)

OverwrittenByLater ==
    \E i, j \in 1..Len(written) :
        /\ i < j
        /\ written[i].path = written[j].path
        /\ written[i].f # written[j].f

C13_DistinctDestinations ==
    /\ \A n, m \in Discovered :
          n # m => \A k \in Kinds : Dest(k, n) # Dest(k, m)
    /\ \A n \in Discovered : ~SkippedOnOthersArtifacts(n)
    /\ ~OverwrittenByLater

====
